---------------------------- MODULE Spec2Model ----------------------------
(***************************************************************************)
(* BISS: the toy solar system (solar_system.py) and the binary star       *)
(* engine (binary_star_simulator.py).                                     *)
(*                                                                         *)
(* Arithmetic.  The Python code computes in IEEE doubles; this model      *)
(* computes the same expressions over exact numbers, so rounding is not   *)
(* modelled:                                                               *)
(*   - a number is a rational <<n, d>> in lowest terms with d > 0;         *)
(*   - an angle is held in units of pi (math.pi, np.pi is the rational 1),  *)
(*     and so is every quantity that carries one factor of pi (angular     *)
(*     velocities, orbital speeds, radial velocities);                     *)
(*   - the value of a sine or cosine is a surd <<a, b>> = a + b*sqrt(3),   *)
(*     a and b rational, which is exact on the angles k*pi/6.              *)
(***************************************************************************)
EXTENDS Integers, Sequences, FiniteSets, TLC

VARIABLES
    solar_system,  \* the SolarSystem object (sun, bodies, time_elapsed)
    body,          \* a CelestialBody driven directly through its own methods
    system,        \* the BinaryStarSystem most recently constructed
    result,        \* the most recent engine call: its arguments and its return
    raised,        \* the exception the most recent call raised, or "none"
    main           \* solar_system.py's main(): whether its loop is running
                   \* and the choices it has read

vars == <<solar_system, body, system, result, raised, main>>

-----------------------------------------------------------------------------
(* Exact rational arithmetic: the float operators of the code.             *)

Abs(n) ==
    IF n < 0 THEN -n ELSE n

RECURSIVE GCD(_, _)
GCD(a, b) ==
    IF b = 0 THEN a ELSE GCD(b, a % b)

\* Floor division of integers, d > 0.
FloorDiv(n, d) ==
    (n - (n % d)) \div d

\* The rational n/d in lowest terms with a positive denominator, d # 0.
Rat(n, d) ==
    LET g == GCD(Abs(n), Abs(d))
        s == IF d < 0 THEN -1 ELSE 1
    IN  <<(s * n) \div g, (s * d) \div g>>

Num(n) ==
    <<n, 1>>

\* A decimal literal of the source: Dec(36525, 100) is 365.25.
Dec(n, d) ==
    Rat(n, d)

Zero ==
    <<0, 1>>

One ==
    <<1, 1>>

RAdd(x, y) ==
    Rat(x[1] * y[2] + y[1] * x[2], x[2] * y[2])

RNeg(x) ==
    <<-x[1], x[2]>>

RSub(x, y) ==
    RAdd(x, RNeg(y))

RMul(x, y) ==
    Rat(x[1] * y[1], x[2] * y[2])

\* x / y for y # 0; the callers raise ZeroDivisionError on y = 0.
RDiv(x, y) ==
    Rat(x[1] * y[2], x[2] * y[1])

RIsZero(x) ==
    x[1] = 0

RLt(x, y) ==
    x[1] * y[2] < y[1] * x[2]

RLe(x, y) ==
    x[1] * y[2] <= y[1] * x[2]

RAbs(x) ==
    <<Abs(x[1]), x[2]>>

\* A mutant of RMod: the remainder truncated toward zero (C's fmod), which
\* takes the sign of the dividend.
RModTruncated(x, m) ==
    LET q == x[1] * m[2]
        d == x[2] * m[1]
        k == IF q < 0 THEN -FloorDiv(-q, d) ELSE FloorDiv(q, d)
    IN  Rat(x[1] * m[2] - k * m[1] * x[2], x[2] * m[2])

\* Python's float x % m for m > 0: x - m*floor(x/m), in [0, m).
RMod(x, m) ==
    LET k == FloorDiv(x[1] * m[2], x[2] * m[1])
    IN  Rat(x[1] * m[2] - k * m[1] * x[2], x[2] * m[2])

\* math.pi and 2 * math.pi in units of pi.
Pi ==
    One

TwoPi ==
    RMul(Num(2), Pi)

-----------------------------------------------------------------------------
(* Surds a + b*sqrt(3) and the trigonometric functions on the angles       *)
(* k*pi/6, where they are exact.                                           *)

Surd(a, b) ==
    <<a, b>>

SNum(x) ==
    <<x, Zero>>

SZero ==
    SNum(Zero)

SAdd(s, t) ==
    <<RAdd(s[1], t[1]), RAdd(s[2], t[2])>>

SNeg(s) ==
    <<RNeg(s[1]), RNeg(s[2])>>

SSub(s, t) ==
    SAdd(s, SNeg(t))

\* (a + b*sqrt3)(c + d*sqrt3) = (ac + 3bd) + (ad + bc)*sqrt3.
SMul(s, t) ==
    <<RAdd(RMul(s[1], t[1]), RMul(Num(3), RMul(s[2], t[2]))),
      RAdd(RMul(s[1], t[2]), RMul(s[2], t[1]))>>

\* A rational times a surd.
SScale(x, s) ==
    <<RMul(x, s[1]), RMul(x, s[2])>>

RSign(x) ==
    IF x[1] > 0 THEN 1 ELSE IF x[1] < 0 THEN -1 ELSE 0

\* The sign of a + b*sqrt3: where a and b disagree, a wins iff a^2 > 3b^2.
SSign(s) ==
    LET sa == RSign(s[1])
        sb == RSign(s[2])
    IN  IF sb = 0 \/ sa = sb THEN sa
        ELSE IF sa = 0 THEN sb
        ELSE IF RLt(RMul(Num(3), RMul(s[2], s[2])), RMul(s[1], s[1]))
             THEN sa ELSE sb

SIsZero(s) ==
    RIsZero(s[1]) /\ RIsZero(s[2])

Half ==
    Dec(1, 2)

\* np.cos at theta (in units of pi), a multiple of pi/6.
cos(theta) ==
    LET k == RMul(RMod(theta, TwoPi), Num(6))[1]
    IN  CASE k = 0 -> Surd(One, Zero)
          [] k \in {1, 11} -> Surd(Zero, Half)
          [] k \in {2, 10} -> Surd(Half, Zero)
          [] k \in {3, 9} -> Surd(Zero, Zero)
          [] k \in {4, 8} -> Surd(RNeg(Half), Zero)
          [] k \in {5, 7} -> Surd(Zero, RNeg(Half))
          [] k = 6 -> Surd(RNeg(One), Zero)

\* np.sin at theta (in units of pi), a multiple of pi/6.
sin(theta) ==
    LET k == RMul(RMod(theta, TwoPi), Num(6))[1]
    IN  CASE k \in {0, 6} -> Surd(Zero, Zero)
          [] k \in {1, 5} -> Surd(Half, Zero)
          [] k \in {2, 4} -> Surd(Zero, Half)
          [] k = 3 -> Surd(One, Zero)
          [] k \in {7, 11} -> Surd(RNeg(Half), Zero)
          [] k \in {8, 10} -> Surd(Zero, RNeg(Half))
          [] k = 9 -> Surd(RNeg(One), Zero)

\* np.radians: degrees * pi / 180, in units of pi.
radians(degrees) ==
    RDiv(RMul(degrees, Pi), Num(180))

-----------------------------------------------------------------------------
(* solar_system.py: CelestialBody and SolarSystem.                         *)

\* A mass literal m * 10^e kg; the mass is never used in arithmetic.
Sci(m, e) ==
    [mantissa |-> m, exponent |-> e]

\* CelestialBody.__init__: the angle starts at 0.
CelestialBody(name, mass, distance, orbital_period, radius, color) ==
    [name |-> name, mass |-> mass, distance |-> distance,
     orbital_period |-> orbital_period, radius |-> radius, color |-> color,
     angle |-> Zero]

\* A mutant of update_position: the angle is assigned, not accumulated.
update_position_assign(b, time_step) ==
    IF RIsZero(b.orbital_period)
    THEN [body |-> b, raised |-> "ZeroDivisionError"]
    ELSE LET angular_velocity == RDiv(TwoPi, b.orbital_period)
         IN  [body |-> [b EXCEPT !.angle =
                            RMod(RMul(angular_velocity, time_step), TwoPi)],
              raised |-> "none"]

\* A mutant of update_position: the increment lands on distance as well.
update_position_distance(b, time_step) ==
    IF RIsZero(b.orbital_period)
    THEN [body |-> b, raised |-> "ZeroDivisionError"]
    ELSE LET angular_velocity == RDiv(TwoPi, b.orbital_period)
             delta == RMul(angular_velocity, time_step)
         IN  [body |-> [b EXCEPT !.angle = RMod(RAdd(b.angle, delta), TwoPi),
                                 !.distance = RAdd(b.distance, delta)],
              raised |-> "none"]

\* CelestialBody.update_position.  The division by orbital_period comes
\* first and raises ZeroDivisionError on 0, before the angle is touched.
update_position(b, time_step) ==
    IF RIsZero(b.orbital_period)
    THEN [body |-> b, raised |-> "ZeroDivisionError"]
    ELSE LET angular_velocity == RDiv(TwoPi, b.orbital_period)
             angle == RAdd(b.angle, RMul(angular_velocity, time_step))
         IN  [body |-> [b EXCEPT !.angle = RMod(angle, TwoPi)],
              raised |-> "none"]

\* CelestialBody.get_position, at an angle that is a multiple of pi/6.
get_position(b) ==
    [x |-> SScale(b.distance, cos(b.angle)),
     y |-> SScale(b.distance, sin(b.angle))]

\* x / y for a y # 0 with a large numerator: common factors are cancelled
\* before the products are formed.
RDivCancel(x, y) ==
    LET g == GCD(Abs(x[1]), Abs(y[1]))
        h == GCD(x[2], y[2])
    IN  Rat((x[1] \div g) * (y[2] \div h), (x[2] \div h) * (y[1] \div g))

\* A mutant of get_velocity: a body with orbital_period 0 is given speed 0
\* where the division fails.
get_velocity_guarded(b) ==
    LET distance_km == b.distance
        period_seconds == RMul(RMul(b.orbital_period, Num(24)), Num(3600))
    IN  IF RIsZero(period_seconds)
        THEN [returned |-> TRUE, value |-> Zero, raised |-> "none"]
        ELSE [returned |-> TRUE,
              value |-> RDivCancel(RMul(Num(2), distance_km), period_seconds),
              raised |-> "none"]

\* CelestialBody.get_velocity.  distance_km is held in units of
\* 149597870.7 km, so the speed returned is in units of pi * 149597870.7
\* km/s; period_seconds is in seconds.  Dividing by a zero period_seconds
\* raises ZeroDivisionError and nothing is returned.
get_velocity(b) ==
    LET distance_km == b.distance
        period_seconds == RMul(RMul(b.orbital_period, Num(24)), Num(3600))
    IN  IF RIsZero(period_seconds)
        THEN [returned |-> FALSE, value |-> Zero,
              raised |-> "ZeroDivisionError"]
        ELSE [returned |-> TRUE,
              value |-> RDivCancel(RMul(Num(2), distance_km), period_seconds),
              raised |-> "none"]

\* SolarSystem.setup_solar_system: the Sun.
Sun ==
    CelestialBody("Sun", Sci(1989, 27), Zero, Zero, Num(696340), "yellow")

\* A mutant of Planets: Earth's year is 365 days.
Planets_earth_365 ==
    << CelestialBody("Mercury", Sci(3285, 20), Dec(39, 100), Num(88),
                     Dec(24397, 10), "gray"),
       CelestialBody("Venus", Sci(4867, 21), Dec(72, 100), Num(225),
                     Dec(60518, 10), "orange"),
       CelestialBody("Earth", Sci(5972, 21), Num(1), Num(365),
                     Num(6371), "blue"),
       CelestialBody("Mars", Sci(639, 21), Dec(152, 100), Num(687),
                     Dec(33895, 10), "red"),
       CelestialBody("Jupiter", Sci(1898, 24), Dec(52, 10), Num(4333),
                     Num(69911), "orange"),
       CelestialBody("Saturn", Sci(5683, 23), Dec(954, 100), Num(10759),
                     Num(58232), "yellow") >>

\* SolarSystem.setup_solar_system: the planets, in the order appended.
Planets ==
    << CelestialBody("Mercury", Sci(3285, 20), Dec(39, 100), Num(88),
                     Dec(24397, 10), "gray"),
       CelestialBody("Venus", Sci(4867, 21), Dec(72, 100), Num(225),
                     Dec(60518, 10), "orange"),
       CelestialBody("Earth", Sci(5972, 21), Num(1), Dec(36525, 100),
                     Num(6371), "blue"),
       CelestialBody("Mars", Sci(639, 21), Dec(152, 100), Num(687),
                     Dec(33895, 10), "red"),
       CelestialBody("Jupiter", Sci(1898, 24), Dec(52, 10), Num(4333),
                     Num(69911), "orange"),
       CelestialBody("Saturn", Sci(5683, 23), Dec(954, 100), Num(10759),
                     Num(58232), "yellow") >>

\* SolarSystem.__init__.
SolarSystem ==
    [sun |-> Sun, bodies |-> Planets, time_elapsed |-> Zero]

\* The loop of SolarSystem.update from body i on: an exception ends it,
\* with the bodies before i already advanced.
RECURSIVE update_loop(_, _, _)
update_loop(bs, i, time_step) ==
    IF i > Len(bs)
    THEN [bodies |-> bs, raised |-> "none"]
    ELSE LET r == update_position(bs[i], time_step)
         IN  IF r.raised # "none"
             THEN [bodies |-> bs, raised |-> r.raised]
             ELSE update_loop([bs EXCEPT ![i] = r.body], i + 1, time_step)

\* A mutant of update: the elapsed time is not accumulated.
update_no_time(ss, time_step) ==
    LET r == update_loop(ss.bodies, 1, time_step)
    IN  [ss |-> [ss EXCEPT !.bodies = r.bodies], raised |-> r.raised]

\* A mutant of update: the first body is left where it was.
update_skip_first(ss, time_step) ==
    LET r == update_loop(ss.bodies, 2, time_step)
    IN  IF r.raised # "none"
        THEN [ss |-> [ss EXCEPT !.bodies = r.bodies], raised |-> r.raised]
        ELSE [ss |-> [ss EXCEPT !.bodies = r.bodies,
                                !.time_elapsed = RAdd(@, time_step)],
              raised |-> "none"]

\* SolarSystem.update.
update(ss, time_step) ==
    LET r == update_loop(ss.bodies, 1, time_step)
    IN  IF r.raised # "none"
        THEN [ss |-> [ss EXCEPT !.bodies = r.bodies], raised |-> r.raised]
        ELSE [ss |-> [ss EXCEPT !.bodies = r.bodies,
                                !.time_elapsed = RAdd(@, time_step)],
              raised |-> "none"]

-----------------------------------------------------------------------------
(* binary_star_simulator.py: BinaryStarSystem.                             *)

\* No engine: nothing has been constructed.
NoSystem ==
    [constructed |-> FALSE]

\* 1 AU/day = 1731.5 km/s.
AuPerDayInKms ==
    Dec(17315, 10)

\* A mutant of BinaryStarSystem: r1 takes the star's own mass, not its
\* companion's.
BinaryStarSystem_own_mass(mass1, mass2, semi_major_axis, period) ==
    LET total_mass == RAdd(mass1, mass2)
    IN  IF RIsZero(mass1) \/ RIsZero(total_mass) \/ RIsZero(period)
        THEN [system |-> NoSystem, raised |-> "ZeroDivisionError"]
        ELSE LET mass_ratio == RDiv(mass2, mass1)
                 r1 == RDiv(RMul(semi_major_axis, mass1), total_mass)
                 r2 == RDiv(RMul(semi_major_axis, mass1), total_mass)
                 omega == RDiv(TwoPi, period)
                 v1 == RMul(r1, omega)
                 v2 == RMul(r2, omega)
             IN  [system |->
                    [constructed |-> TRUE,
                     mass1 |-> mass1, mass2 |-> mass2,
                     semi_major_axis |-> semi_major_axis, period |-> period,
                     total_mass |-> total_mass, mass_ratio |-> mass_ratio,
                     r1 |-> r1, r2 |-> r2, omega |-> omega,
                     v1 |-> v1, v2 |-> v2,
                     v1_kms |-> RMul(v1, AuPerDayInKms),
                     v2_kms |-> RMul(v2, AuPerDayInKms)],
                  raised |-> "none"]

\* A mutant of BinaryStarSystem: r1 is divided by mass1, not total_mass.
BinaryStarSystem_wrong_divisor(mass1, mass2, semi_major_axis, period) ==
    LET total_mass == RAdd(mass1, mass2)
    IN  IF RIsZero(mass1) \/ RIsZero(total_mass) \/ RIsZero(period)
        THEN [system |-> NoSystem, raised |-> "ZeroDivisionError"]
        ELSE LET mass_ratio == RDiv(mass2, mass1)
                 r1 == RDiv(RMul(semi_major_axis, mass2), mass1)
                 r2 == RDiv(RMul(semi_major_axis, mass1), total_mass)
                 omega == RDiv(TwoPi, period)
                 v1 == RMul(r1, omega)
                 v2 == RMul(r2, omega)
             IN  [system |->
                    [constructed |-> TRUE,
                     mass1 |-> mass1, mass2 |-> mass2,
                     semi_major_axis |-> semi_major_axis, period |-> period,
                     total_mass |-> total_mass, mass_ratio |-> mass_ratio,
                     r1 |-> r1, r2 |-> r2, omega |-> omega,
                     v1 |-> v1, v2 |-> v2,
                     v1_kms |-> RMul(v1, AuPerDayInKms),
                     v2_kms |-> RMul(v2, AuPerDayInKms)],
                  raised |-> "none"]

\* BinaryStarSystem.__init__.  There is no validation of the parameters:
\* the only failures are the float divisions by zero (mass2 / mass1,
\* ... / self.total_mass, 2 * np.pi / period), which raise
\* ZeroDivisionError and leave no object behind.
BinaryStarSystem(mass1, mass2, semi_major_axis, period) ==
    LET total_mass == RAdd(mass1, mass2)
    IN  IF RIsZero(mass1) \/ RIsZero(total_mass) \/ RIsZero(period)
        THEN [system |-> NoSystem, raised |-> "ZeroDivisionError"]
        ELSE LET mass_ratio == RDiv(mass2, mass1)
                 r1 == RDiv(RMul(semi_major_axis, mass2), total_mass)
                 r2 == RDiv(RMul(semi_major_axis, mass1), total_mass)
                 omega == RDiv(TwoPi, period)
                 v1 == RMul(r1, omega)
                 v2 == RMul(r2, omega)
             IN  [system |->
                    [constructed |-> TRUE,
                     mass1 |-> mass1, mass2 |-> mass2,
                     semi_major_axis |-> semi_major_axis, period |-> period,
                     total_mass |-> total_mass, mass_ratio |-> mass_ratio,
                     r1 |-> r1, r2 |-> r2, omega |-> omega,
                     v1 |-> v1, v2 |-> v2,
                     v1_kms |-> RMul(v1, AuPerDayInKms),
                     v2_kms |-> RMul(v2, AuPerDayInKms)],
                  raised |-> "none"]

\* A mutant of calculate_positions: star 2 loses its minus signs.
calculate_positions_same_side(self, times) ==
    LET theta == RMul(self.omega, times)
    IN  [x1 |-> SScale(self.r1, cos(theta)),
         y1 |-> SScale(self.r1, sin(theta)),
         x2 |-> SScale(self.r2, cos(theta)),
         y2 |-> SScale(self.r2, sin(theta))]

\* A mutant of calculate_positions: sine and cosine change places.
calculate_positions_swapped_trig(self, times) ==
    LET theta == RMul(self.omega, times)
    IN  [x1 |-> SScale(self.r1, sin(theta)),
         y1 |-> SScale(self.r1, cos(theta)),
         x2 |-> SScale(RNeg(self.r2), sin(theta)),
         y2 |-> SScale(RNeg(self.r2), cos(theta))]

\* BinaryStarSystem.calculate_positions at one time.
calculate_positions(self, times) ==
    LET theta == RMul(self.omega, times)
    IN  [x1 |-> SScale(self.r1, cos(theta)),
         y1 |-> SScale(self.r1, sin(theta)),
         x2 |-> SScale(RNeg(self.r2), cos(theta)),
         y2 |-> SScale(RNeg(self.r2), sin(theta))]

\* A mutant of calculate_radial_velocities: star 2 without its half-turn
\* of phase.
calculate_radial_velocities_same_phase(self, times, inclination) ==
    LET theta == RMul(self.omega, times)
        inc_rad == radians(inclination)
    IN  [rv1 |-> SMul(SScale(self.v1_kms, sin(theta)), sin(inc_rad)),
         rv2 |-> SMul(SScale(self.v2_kms, sin(theta)), sin(inc_rad))]

\* A mutant of calculate_radial_velocities: the projection takes the
\* cosine of the inclination.
calculate_radial_velocities_cos_inc(self, times, inclination) ==
    LET theta == RMul(self.omega, times)
        inc_rad == radians(inclination)
    IN  [rv1 |-> SMul(SScale(self.v1_kms, sin(theta)), cos(inc_rad)),
         rv2 |-> SMul(SScale(self.v2_kms, sin(RAdd(theta, Pi))),
                      cos(inc_rad))]

\* A mutant of calculate_radial_velocities: each star takes the other's
\* orbital speed.
calculate_radial_velocities_swapped(self, times, inclination) ==
    LET theta == RMul(self.omega, times)
        inc_rad == radians(inclination)
    IN  [rv1 |-> SMul(SScale(self.v2_kms, sin(theta)), sin(inc_rad)),
         rv2 |-> SMul(SScale(self.v1_kms, sin(RAdd(theta, Pi))),
                      sin(inc_rad))]

\* BinaryStarSystem.calculate_radial_velocities at one time.
calculate_radial_velocities(self, times, inclination) ==
    LET theta == RMul(self.omega, times)
        inc_rad == radians(inclination)
    IN  [rv1 |-> SMul(SScale(self.v1_kms, sin(theta)), sin(inc_rad)),
         rv2 |-> SMul(SScale(self.v2_kms, sin(RAdd(theta, Pi))),
                      sin(inc_rad))]

-----------------------------------------------------------------------------
(* The state machines.                                                     *)

\* The model lets update take time_elapsed no further than MaxElapsed days
\* forward and MaxRewind days back.
MaxElapsed == 366

MaxRewind == 31

\* The time steps handed to update and update_position: the menu's 1, 30
\* and 365 days, the demo's 182.5 days, no time at all, and rewinds.
TimeSteps ==
    {Num(1), Num(30), Num(365), Dec(1825, 10), Zero, Num(-1), Num(-30)}

NoResult ==
    [op |-> "none"]

\* main() of solar_system.py has not been entered.
NotStarted ==
    [running |-> FALSE, choices |-> <<>>]

\* solar_system = SolarSystem(); nothing else has been built or called.
Init ==
    /\ solar_system = SolarSystem
    /\ body = Sun
    /\ system = NoSystem
    /\ result = NoResult
    /\ raised = "none"
    /\ main = NotStarted

\* solar_system.update(time_step).
Update(time_step) ==
    /\ RLe(RAdd(solar_system.time_elapsed, time_step), Num(MaxElapsed))
    /\ RLe(Num(-MaxRewind), RAdd(solar_system.time_elapsed, time_step))
    /\ LET r == update(solar_system, time_step)
       IN  /\ solar_system' = r.ss
           /\ raised' = r.raised
    /\ UNCHANGED <<body, system, result, main>>

Next ==
    \E time_step \in TimeSteps : Update(time_step)

Spec ==
    Init /\ [][Next]_vars

\* The CelestialBody objects setup_solar_system creates.
AllBodies ==
    {Sun} \cup {Planets[i] : i \in 1..Len(Planets)}

\* One CelestialBody, as created, driven through its own methods.
BodyInit ==
    /\ solar_system = SolarSystem
    /\ body \in AllBodies
    /\ system = NoSystem
    /\ result = NoResult
    /\ raised = "none"
    /\ main = NotStarted

\* body.update_position(time_step).
BodyUpdatePosition(time_step) ==
    /\ LET r == update_position(body, time_step)
       IN  /\ body' = r.body
           /\ raised' = r.raised
    /\ UNCHANGED <<solar_system, system, result, main>>

BodyNext ==
    \E time_step \in TimeSteps : BodyUpdatePosition(time_step)

BodySpec ==
    BodyInit /\ [][BodyNext]_vars

\* body.get_velocity().
BodyGetVelocity ==
    /\ LET r == get_velocity(body)
       IN  /\ result' = [op |-> "get_velocity", returned |-> r.returned,
                         value |-> r.value]
           /\ raised' = r.raised
    /\ UNCHANGED <<solar_system, body, system, main>>

VelocityNext ==
    \/ \E time_step \in TimeSteps : BodyUpdatePosition(time_step)
    \/ BodyGetVelocity

\* One CelestialBody moved about and asked for its speed in any order.
VelocitySpec ==
    BodyInit /\ [][VelocityNext]_vars

\* The engine's inputs.  Masses are the multiples of 1/2 solar mass from
\* -1/2 to MaxMassHalves/2 and axes the whole AU from 0 to MaxAxis: the
\* non-positive values are the ones __init__ is not meant to accept.
MaxMassHalves == 2

MaxAxis == 2

MassValues ==
    {Dec(n, 2) : n \in -1..MaxMassHalves}

AxisValues ==
    {Num(n) : n \in 0..MaxAxis}

\* Periods in days whose twelfths are whole days, so that theta is a
\* multiple of pi/6 at every whole day; and no period at all.
PeriodValues ==
    {Zero, Num(4), Num(12)}

\* Times in days: negative, zero, and beyond one period.
MaxTime == 6

TimeValues ==
    {Num(n) : n \in -MaxTime..MaxTime}

\* Inclinations in degrees: face-on, inclined, edge-on, and one past 180.
InclinationValues ==
    {Num(0), Num(60), Num(90), Num(270)}

\* A mutant of calculate_doppler_shift: the shift has the wrong sign.
calculate_doppler_shift_blue(self, rv, wavelength) ==
    LET c == Dec(299792458, 1000)
    IN  RMul(wavelength, RSub(One, RDiv(rv, c)))

\* BinaryStarSystem.calculate_doppler_shift.
calculate_doppler_shift(self, rv, wavelength) ==
    LET c == Dec(299792458, 1000)
    IN  RMul(wavelength, RAdd(One, RDiv(rv, c)))

\* A mutant of CalculatePositions: the engine keeps the time last asked in
\* one of its fields.
CalculatePositions_keeps_time(times) ==
    /\ system.constructed
    /\ result' = [op |-> "calculate_positions", times |-> times,
                  value |-> calculate_positions(system, times)]
    /\ raised' = "none"
    /\ system' = [system EXCEPT !.v1 = times]
    /\ UNCHANGED <<solar_system, body, main>>

\* system = BinaryStarSystem(mass1, mass2, semi_major_axis, period), for
\* the one engine the model follows.
Construct(mass1, mass2, semi_major_axis, period) ==
    /\ ~system.constructed
    /\ LET r == BinaryStarSystem(mass1, mass2, semi_major_axis, period)
       IN  /\ system' = r.system
           /\ raised' = r.raised
    /\ result' = [op |-> "__init__", mass1 |-> mass1, mass2 |-> mass2,
                  semi_major_axis |-> semi_major_axis, period |-> period]
    /\ UNCHANGED <<solar_system, body, main>>

\* system.calculate_positions(times).
CalculatePositions(times) ==
    /\ system.constructed
    /\ result' = [op |-> "calculate_positions", times |-> times,
                  value |-> calculate_positions(system, times)]
    /\ raised' = "none"
    /\ UNCHANGED <<solar_system, body, system, main>>

\* system.calculate_radial_velocities(times, inclination).
CalculateRadialVelocities(times, inclination) ==
    /\ system.constructed
    /\ result' = [op |-> "calculate_radial_velocities", times |-> times,
                  inclination |-> inclination,
                  value |-> calculate_radial_velocities(system, times,
                                                        inclination)]
    /\ raised' = "none"
    /\ UNCHANGED <<solar_system, body, system, main>>

BinaryNext ==
    \/ \E mass1 \in MassValues, mass2 \in MassValues,
          semi_major_axis \in AxisValues, period \in PeriodValues :
          Construct(mass1, mass2, semi_major_axis, period)
    \/ \E times \in TimeValues : CalculatePositions(times)
    \/ \E times \in TimeValues, inclination \in InclinationValues :
          CalculateRadialVelocities(times, inclination)

BinarySpec ==
    Init /\ [][BinaryNext]_vars

\* The Doppler inputs: radial velocities in whole km/s either side of 0 and
\* rest wavelengths in whole nm.
MaxRv == 2

MaxWavelength == 3

RvValues ==
    {Num(n) : n \in -MaxRv..MaxRv}

WavelengthValues ==
    {Num(n) : n \in 1..MaxWavelength}

\* system.calculate_doppler_shift(rv, wavelength).
CalculateDopplerShift(rv, wavelength) ==
    /\ system.constructed
    /\ result' = [op |-> "calculate_doppler_shift", rv |-> rv,
                  wavelength |-> wavelength,
                  value |-> calculate_doppler_shift(system, rv, wavelength)]
    /\ raised' = "none"
    /\ UNCHANGED <<solar_system, body, system, main>>

\* Engines as __init__ leaves them, of equal and of unequal masses, one AU
\* apart.
EngineSystems ==
    {BinaryStarSystem(mass1, mass2, One, period).system :
        mass1 \in {Half, One}, mass2 \in {Half, One},
        period \in {Num(4), Num(12)}}

\* system = BinaryStarSystem(...) has returned; nothing has been asked yet.
EngineInit ==
    /\ solar_system = SolarSystem
    /\ body = Sun
    /\ system \in EngineSystems
    /\ result = NoResult
    /\ raised = "none"
    /\ main = NotStarted

EngineNext ==
    \/ \E times \in TimeValues : CalculatePositions(times)
    \/ \E times \in TimeValues, inclination \in InclinationValues :
          CalculateRadialVelocities(times, inclination)
    \/ \E rv \in RvValues, wavelength \in WavelengthValues :
          CalculateDopplerShift(rv, wavelength)

\* One constructed engine asked its three queries in any order.
EngineSpec ==
    EngineInit /\ [][EngineNext]_vars

-----------------------------------------------------------------------------
(* solar_system.py: main(), the menu loop.  A line of input is a sequence   *)
(* of characters.                                                          *)

Whitespace ==
    {" ", "\t", "\n"}

\* str.lstrip and str.rstrip.
RECURSIVE lstrip(_)
lstrip(s) ==
    IF s # <<>> /\ Head(s) \in Whitespace THEN lstrip(Tail(s)) ELSE s

RECURSIVE rstrip(_)
rstrip(s) ==
    IF s # <<>> /\ s[Len(s)] \in Whitespace
    THEN rstrip(SubSeq(s, 1, Len(s) - 1))
    ELSE s

\* str.strip.
strip(s) ==
    rstrip(lstrip(s))

\* A mutant of main_choice: a year is advanced as a month.
main_choice_short_year(ss, choice) ==
    IF choice = <<"0">> THEN [ss |-> ss, running |-> FALSE, raised |-> "none"]
    ELSE LET r == IF choice = <<"2">> THEN update(ss, Num(1))
                  ELSE IF choice = <<"3">> THEN update(ss, Num(30))
                  ELSE IF choice = <<"4">> THEN update(ss, Num(30))
                  ELSE [ss |-> ss, raised |-> "none"]
         IN  [ss |-> r.ss, running |-> TRUE, raised |-> r.raised]

\* The if/elif chain of main() on one stripped choice: '0' breaks out of the
\* loop; '2', '3', '4' call update; '1', '5', '6', '7' only display
\* (display_info, display_simple_visualization, show_educational_facts,
\* calculate_distance read the bodies and print); anything else prints
\* "Invalid choice!".  An exception other than KeyboardInterrupt is caught
\* and printed, and the loop goes on.
main_choice(ss, choice) ==
    IF choice = <<"0">> THEN [ss |-> ss, running |-> FALSE, raised |-> "none"]
    ELSE LET r == IF choice = <<"2">> THEN update(ss, Num(1))
                  ELSE IF choice = <<"3">> THEN update(ss, Num(30))
                  ELSE IF choice = <<"4">> THEN update(ss, Num(365))
                  ELSE [ss |-> ss, raised |-> "none"]
         IN  [ss |-> r.ss, running |-> TRUE, raised |-> r.raised]

\* The number of lines main() reads.
MaxChoices == 3

\* Lines typed at the menu: the eight choices, two of them padded, and
\* lines that are no choice.
MenuInputs ==
    {<<"0">>, <<"1">>, <<"2">>, <<"3">>, <<"4">>, <<"5">>, <<"6">>, <<"7">>,
     <<" ", "2">>, <<"4", " ">>, <<"8">>, <<"2", "2">>, <<>>}

\* main() has built its SolarSystem and is about to print the menu.
MenuInit ==
    /\ solar_system = SolarSystem
    /\ body = Sun
    /\ system = NoSystem
    /\ result = NoResult
    /\ raised = "none"
    /\ main = [running |-> TRUE, choices |-> <<>>]

\* One turn of the loop: read a line, strip it, act on it.
MenuChoice(line) ==
    /\ main.running
    /\ Len(main.choices) < MaxChoices
    /\ LET choice == strip(line)
           r == main_choice(solar_system, choice)
       IN  /\ solar_system' = r.ss
           /\ raised' = r.raised
           /\ main' = [running |-> r.running,
                       choices |-> Append(main.choices, choice)]
    /\ UNCHANGED <<body, system, result>>

\* Ctrl-C at a prompt: KeyboardInterrupt leaves the loop.
MenuInterrupt ==
    /\ main.running
    /\ main' = [main EXCEPT !.running = FALSE]
    /\ raised' = "KeyboardInterrupt"
    /\ UNCHANGED <<solar_system, body, system, result>>

MenuNext ==
    \/ \E line \in MenuInputs : MenuChoice(line)
    \/ MenuInterrupt

MenuSpec ==
    MenuInit /\ [][MenuNext]_vars

-----------------------------------------------------------------------------
(* binary_star_simulator.py: get_user_input().                             *)

DigitChars ==
    <<"0", "1", "2", "3", "4", "5", "6", "7", "8", "9">>

IsDigit(c) ==
    \E i \in 1..Len(DigitChars) : DigitChars[i] = c

DigitValue(c) ==
    (CHOOSE i \in 1..Len(DigitChars) : DigitChars[i] = c) - 1

\* The digits and the point of a decimal literal, read left to right into
\* n/d; anything else, or a second point, is no literal.
RECURSIVE float_digits(_, _, _, _)
float_digits(s, n, d, dotted) ==
    IF s = <<>> THEN [ok |-> TRUE, n |-> n, d |-> d]
    ELSE IF Head(s) = "."
         THEN IF dotted THEN [ok |-> FALSE, n |-> n, d |-> d]
              ELSE float_digits(Tail(s), n, d, TRUE)
    ELSE IF IsDigit(Head(s))
         THEN float_digits(Tail(s), 10 * n + DigitValue(Head(s)),
                           IF dotted THEN 10 * d ELSE d, dotted)
    ELSE [ok |-> FALSE, n |-> n, d |-> d]

\* float(s) on a string: surrounding whitespace is dropped, then an
\* optional sign and a decimal literal with at least one digit are read;
\* any other text raises ValueError.  (Exponents, underscores, "inf" and
\* "nan", which float also reads, are not among the answers modelled.)
float(s) ==
    LET t == strip(s)
        signed == t # <<>> /\ Head(t) \in {"+", "-"}
        digits == IF signed THEN Tail(t) ELSE t
        p == float_digits(digits, 0, 1, FALSE)
    IN  IF (\E i \in 1..Len(digits) : IsDigit(digits[i])) /\ p.ok
        THEN [value |-> IF signed /\ Head(t) = "-" THEN Rat(-p.n, p.d)
                        ELSE Rat(p.n, p.d),
              raised |-> "none"]
        ELSE [value |-> Zero, raised |-> "ValueError"]

\* The defaults of the five prompts: mass1, mass2, semi_major_axis, period,
\* inclination.
Defaults ==
    <<Dec(15, 10), One, Num(5), Num(365), Num(90)>>

\* A mutant of get_user_input: an answer float rejects gives up only its
\* own field.
get_user_input_per_field(answers) ==
    [value |-> [i \in 1..Len(Defaults) |->
                    IF strip(answers[i]) # <<>>
                       /\ float(answers[i]).raised = "none"
                    THEN float(answers[i]).value
                    ELSE Defaults[i]],
     raised |-> "none"]

\* get_user_input, given the lines typed at its prompts.  Each field is
\* float(answer) if answer.strip() is not empty, else its default; the
\* first ValueError leaves the try block (the later prompts are not read)
\* and all five defaults are returned.
get_user_input(answers) ==
    LET field(i) == IF strip(answers[i]) # <<>>
                    THEN float(answers[i])
                    ELSE [value |-> Defaults[i], raised |-> "none"]
    IN  IF \E i \in 1..Len(Defaults) : field(i).raised = "ValueError"
        THEN [value |-> Defaults, raised |-> "none"]
        ELSE [value |-> [i \in 1..Len(Defaults) |-> field(i).value],
              raised |-> "none"]

\* Lines typed at a prompt: empty and blank ones, numbers, and text that is
\* no number.
AnswerValues ==
    {<<>>, <<" ">>, <<"2">>, <<"1", ".", "2", "5">>, <<" ", "-", "3", " ">>,
     <<"x">>, <<"1", ",", "5">>}

\* mass1, ..., inclination = get_user_input(), called once by main().
GetUserInput(answers) ==
    /\ result.op = "none"
    /\ LET r == get_user_input(answers)
       IN  /\ result' = [op |-> "get_user_input", answers |-> answers,
                         value |-> r.value]
           /\ raised' = r.raised
    /\ UNCHANGED <<solar_system, body, system, main>>

\* The one call main() makes, whatever is typed.
InputNext ==
    /\ result.op = "none"
    /\ \E answers \in [1..Len(Defaults) -> AnswerValues] :
           GetUserInput(answers)

InputSpec ==
    Init /\ [][InputNext]_vars

-----------------------------------------------------------------------------
(* The claims.                                                             *)

Positive(x) ==
    RLt(Zero, x)

\* The parameters the engine is specified for: all four strictly positive.
ValidParameters(p) ==
    /\ Positive(p.mass1)
    /\ Positive(p.mass2)
    /\ Positive(p.semi_major_axis)
    /\ Positive(p.period)

\* C1: constructing the engine with mass1, mass2, semi_major_axis or period
\* zero or negative fails (with InvalidParameterError; any exception is
\* taken for it here) and yields no engine, never silently accepting the
\* value; with all four strictly positive it succeeds.
C1_ConstructionValidates ==
    result.op = "__init__" =>
        IF ValidParameters(result)
        THEN system.constructed /\ raised = "none"
        ELSE ~system.constructed /\ raised # "none"

\* C2: update_position on a body whose orbital_period is <= 0 raises no
\* error and leaves the body's angle unchanged.
C2_NonOrbitingBodySkipped ==
    RLe(body.orbital_period, Zero) =>
        raised = "none" /\ body.angle = Zero

\* C3: from any state, update(t1) then update(t2) leaves every body with
\* the same angle (mod 2 pi) and the system with the same time_elapsed as
\* one update(t1 + t2).
C3_UpdateAdditive ==
    \A t1 \in TimeSteps :
        LET first == update(solar_system, t1).ss
        IN  \A t2 \in TimeSteps :
                LET two == update(first, t2).ss
                    one == update(solar_system, RAdd(t1, t2)).ss
                IN  /\ two.time_elapsed = one.time_elapsed
                    /\ \A i \in 1..Len(solar_system.bodies) :
                           RMod(two.bodies[i].angle, TwoPi)
                               = RMod(one.bodies[i].angle, TwoPi)

\* C3's case: the system has been advanced and rewound (182.5 days on, 30
\* back), and Earth stands where one update by 152.5 days puts it.
C3_Witness ==
    /\ solar_system.time_elapsed = Dec(1525, 10)
    /\ solar_system.bodies[3].angle
           = update(SolarSystem, Dec(1525, 10)).ss.bodies[3].angle
    /\ ~RIsZero(solar_system.bodies[3].angle)

\* C4, as claimed: no update leaves time_elapsed smaller than it was.
C4_ElapsedNeverDecreases ==
    [][RLe(solar_system.time_elapsed, solar_system'.time_elapsed)]_vars

\* C4, amended: time_elapsed starts at 0 and update(time_step) adds
\* exactly time_step to it, so it does not decrease when time_step >= 0.
C4_ElapsedAccumulates ==
    /\ solar_system.time_elapsed = Zero
    /\ [][\A time_step \in TimeSteps :
            Update(time_step) =>
                /\ solar_system'.time_elapsed
                       = RAdd(solar_system.time_elapsed, time_step)
                /\ RLe(Zero, time_step) =>
                       RLe(solar_system.time_elapsed,
                           solar_system'.time_elapsed)]_vars

\* C4's case: updates have run and a negative step has taken time_elapsed
\* below its starting value.
C4_Witness ==
    RLt(solar_system.time_elapsed, Zero)

\* C5: every body's angle is in [0, 2 pi) in every reachable state, and a
\* newly created body has angle 0.
C5_AngleInRange ==
    /\ \A b \in AllBodies : b.angle = Zero
    /\ \A b \in {solar_system.sun}
                   \cup {solar_system.bodies[i] :
                            i \in 1..Len(solar_system.bodies)} :
           RLe(Zero, b.angle) /\ RLt(b.angle, TwoPi)

\* C5's case: a rewind below time 0 has wrapped Earth's angle round to the
\* upper half of the range.
C5_Witness ==
    /\ RLt(solar_system.time_elapsed, Zero)
    /\ RLt(Pi, solar_system.bodies[3].angle)

\* C6: update changes nothing but the planets' angles and time_elapsed:
\* the planets keep their number, order and fixed fields, and the Sun
\* stays as created (distance 0, angle 0, position (0, 0)).
C6_UpdateFrame ==
    /\ Len(solar_system.bodies) = Len(Planets)
    /\ \A i \in 1..Len(Planets) :
           [solar_system.bodies[i] EXCEPT !.angle = Zero] = Planets[i]
    /\ solar_system.sun = Sun
    /\ RIsZero(solar_system.sun.distance)
    /\ RIsZero(solar_system.sun.angle)
    /\ get_position(solar_system.sun) = [x |-> SZero, y |-> SZero]

\* C6's case: updates have moved every planet off its starting angle.
C6_Witness ==
    /\ ~RIsZero(solar_system.time_elapsed)
    /\ \A i \in 1..Len(solar_system.bodies) :
           ~RIsZero(solar_system.bodies[i].angle)

\* C7: for all valid parameters the constructed engine has
\* r1 + r2 = semi_major_axis (exactly here, hence within 1e-9 AU), with
\* r1 = semi_major_axis*mass2/total_mass, r2 = semi_major_axis*mass1/total_mass.
C7_RadiiSumToAxis ==
    (system.constructed /\ ValidParameters(system)) =>
        /\ RAdd(system.r1, system.r2) = system.semi_major_axis
        /\ RMul(system.r1, system.total_mass)
               = RMul(system.semi_major_axis, system.mass2)
        /\ RMul(system.r2, system.total_mass)
               = RMul(system.semi_major_axis, system.mass1)

\* C7's case: an engine built from valid parameters with unequal masses.
C7_Witness ==
    /\ system.constructed
    /\ ValidParameters(system)
    /\ RLt(system.mass1, system.mass2)
    /\ system.semi_major_axis = Num(2)

\* x^2 + y^2 of a point with surd coordinates.
NormSquared(x, y) ==
    SAdd(SMul(x, x), SMul(y, y))

\* C8: for valid parameters and every time, calculate_positions puts the
\* stars collinear with the origin (cross product 0), on opposite sides of
\* it (dot product < 0), at |p1| = r1 and |p2| = r2, with
\* mass1*|p1| = mass2*|p2|.
C8_CentreOfMassBalance ==
    (result.op = "calculate_positions" /\ ValidParameters(system)) =>
        LET p == result.value
            m1 == system.mass1
            m2 == system.mass2
        IN  /\ SIsZero(SSub(SMul(p.x1, p.y2), SMul(p.y1, p.x2)))
            /\ SSign(SAdd(SMul(p.x1, p.x2), SMul(p.y1, p.y2))) = -1
            /\ Positive(system.r1) /\ Positive(system.r2)
            /\ NormSquared(p.x1, p.y1) = SNum(RMul(system.r1, system.r1))
            /\ NormSquared(p.x2, p.y2) = SNum(RMul(system.r2, system.r2))
            /\ RMul(m1, system.r1) = RMul(m2, system.r2)
            /\ SScale(RMul(m1, m1), NormSquared(p.x1, p.y1))
                   = SScale(RMul(m2, m2), NormSquared(p.x2, p.y2))

\* C8's case: positions asked of a valid engine with unequal masses at a
\* negative time more than one period back, star 1 below the origin.
C8_Witness ==
    /\ result.op = "calculate_positions"
    /\ ValidParameters(system)
    /\ system.period = Num(4)
    /\ result.times = Num(-5)
    /\ RLt(system.mass1, system.mass2)
    /\ SSign(result.value.y1) = -1 /\ SSign(result.value.y2) = 1

\* The radial-velocity call was made on a valid engine away from the
\* nodes: sin(theta) # 0.
AwayFromNodes ==
    /\ result.op = "calculate_radial_velocities"
    /\ ValidParameters(system)
    /\ ~SIsZero(sin(RMul(system.omega, result.times)))

\* C9, as claimed: at every time that is not a node, rv1 * rv2 < 0,
\* whatever the inclination.
C9_OppositeSignsAnyInclination ==
    AwayFromNodes =>
        SSign(SMul(result.value.rv1, result.value.rv2)) = -1

\* C9, amended: at every time that is not a node, rv1 * rv2 < 0 provided
\* sin(inclination) # 0; in particular at period/4 with inclination 90.
C9_OppositeSigns ==
    (AwayFromNodes /\ ~SIsZero(sin(radians(result.inclination)))) =>
        /\ SSign(SMul(result.value.rv1, result.value.rv2)) = -1
        /\ SSign(result.value.rv1) = -SSign(result.value.rv2)

\* C9's case: the radial velocities of a valid engine at a quarter period,
\* seen edge-on.
C9_Witness ==
    /\ AwayFromNodes
    /\ result.inclination = Num(90)
    /\ result.times = RDiv(system.period, Num(4))
    /\ SSign(result.value.rv1) = 1
    /\ SSign(result.value.rv2) = -1

\* C10: at inclination 0 both radial velocities are 0, at every time and
\* for every valid parameter set.
C10_FaceOnIsZero ==
    (/\ result.op = "calculate_radial_velocities"
     /\ ValidParameters(system)
     /\ result.inclination = Zero) =>
        SIsZero(result.value.rv1) /\ SIsZero(result.value.rv2)

\* C10's case: a face-on call away from the nodes, where only the
\* inclination makes the velocities vanish.
C10_Witness ==
    /\ AwayFromNodes
    /\ result.inclination = Zero
    /\ result.times = RDiv(system.period, Num(4))
    /\ SIsZero(result.value.rv1) /\ SIsZero(result.value.rv2)

\* s <= t for surds.
SLe(s, t) ==
    SSign(SSub(t, s)) >= 0

\* C11: for every time and inclination |rv1| <= v1_kms and |rv2| <= v2_kms,
\* and the bound is attained edge-on at a quarter period:
\* rv1(period/4, 90) = v1_kms and rv2(period/4, 90) = -v2_kms.
C11_AmplitudeIsOrbitalSpeed ==
    (result.op = "calculate_radial_velocities" /\ ValidParameters(system)) =>
        LET v == result.value
            v1 == SNum(system.v1_kms)
            v2 == SNum(system.v2_kms)
            \* rv / v_kms, the orbital speeds being positive here
            ratio1 == SScale(RDiv(One, system.v1_kms), v.rv1)
            ratio2 == SScale(RDiv(One, system.v2_kms), v.rv2)
        IN  /\ SLe(SNum(Num(-1)), ratio1) /\ SLe(ratio1, SNum(One))
            /\ SLe(SNum(Num(-1)), ratio2) /\ SLe(ratio2, SNum(One))
            /\ (/\ result.inclination = Num(90)
                /\ result.times = RDiv(system.period, Num(4))) =>
                   v.rv1 = v1 /\ v.rv2 = SNeg(v2)

\* C11's case: the two extremes of one engine with unequal masses, reached
\* edge-on at a quarter period.
C11_Witness ==
    /\ result.op = "calculate_radial_velocities"
    /\ ValidParameters(system)
    /\ RLt(system.mass1, system.mass2)
    /\ result.inclination = Num(90)
    /\ result.times = RDiv(system.period, Num(4))
    /\ result.value.rv1 = SNum(system.v1_kms)
    /\ RLt(system.v2_kms, system.v1_kms)

\* C16: with mass1 = mass2 the two orbital radii are equal (each
\* semi_major_axis / 2) and the two orbital speeds in km/s are equal.
C16_EqualMassesSymmetric ==
    (/\ system.constructed
     /\ ValidParameters(system)
     /\ system.mass1 = system.mass2) =>
        /\ system.r1 = system.r2
        /\ system.r1 = RDiv(system.semi_major_axis, Num(2))
        /\ system.v1_kms = system.v2_kms

\* C16's case: an engine of two equal positive masses on a wide orbit.
C16_Witness ==
    /\ system.constructed
    /\ ValidParameters(system)
    /\ system.mass1 = system.mass2
    /\ system.semi_major_axis = Num(2)
    /\ system.r1 = One
    /\ Positive(system.v1_kms)

\* C17: PositionAt(0) puts star 1 at (r1, 0) and star 2 at (-r2, 0).
C17_PositionAtZero ==
    (/\ result.op = "calculate_positions"
     /\ ValidParameters(system)
     /\ result.times = Zero) =>
        /\ result.value.x1 = SNum(system.r1)
        /\ result.value.y1 = SZero
        /\ result.value.x2 = SNum(RNeg(system.r2))
        /\ result.value.y2 = SZero

\* C17's case: positions asked at t = 0 of an engine with unequal radii.
C17_Witness ==
    /\ result.op = "calculate_positions"
    /\ ValidParameters(system)
    /\ result.times = Zero
    /\ RLt(system.r1, system.r2)
    /\ result.value.x1 = SNum(system.r1)
    /\ SSign(result.value.x2) = -1

\* Earth is the third body setup_solar_system appends.
Earth ==
    3

\* The tolerance "within floating tolerance" is read with: 1e-9, here in
\* units of pi (which allows more than 1e-9 rad does).
FloatTolerance ==
    Dec(1, 1000000000)

\* The demo's step: half of 365 days.
HalfYear ==
    Dec(1825, 10)

C19_Lockstep ==
    \A i \in 1..Len(solar_system.bodies) :
        LET b == solar_system.bodies[i]
        IN  b.angle = RMod(RDiv(RMul(TwoPi, solar_system.time_elapsed),
                                b.orbital_period),
                           TwoPi)

\* C19's case: a year or more of updates, with Mercury past four turns and
\* every planet off its starting angle.
C19_Witness ==
    /\ RLt(Num(4 * 88), solar_system.time_elapsed)
    /\ \A i \in 1..Len(solar_system.bodies) :
           ~RIsZero(solar_system.bodies[i].angle)
    /\ RLt(solar_system.bodies[1].angle, Half)

\* The body of that name as setup_solar_system created it.
AsCreated(name) ==
    CHOOSE b \in AllBodies : b.name = name

\* C14: get_velocity is 2*pi*distance_km/period_seconds, a function of
\* distance and orbital_period alone: after any sequence of position
\* updates it returns what it returns for the body as created; for
\* orbital_period = 0 (the central body) it fails instead of returning.
C14_VelocityOfOrbitOnly ==
    [][BodyGetVelocity =>
        IF RIsZero(body.orbital_period)
        THEN /\ raised' = "ZeroDivisionError"
             /\ ~result'.returned
        ELSE /\ raised' = "none"
             /\ result'.returned
             /\ result'.value = get_velocity(AsCreated(body.name)).value
             /\ RMul(result'.value, Num(24 * 3600))
                    = RDiv(RMul(TwoPi, body.distance),
                           body.orbital_period)]_vars

\* C14's case: Earth, moved off its starting angle, returns the speed of
\* a circle of 1 AU a year: 2*pi*AU / (365.25*86400 s).
C14_Witness ==
    /\ result.op = "get_velocity"
    /\ result.returned
    /\ body.name = "Earth"
    /\ ~RIsZero(body.angle)
    /\ result.value = Dec(2, 31557600)

\* C12: calculate_doppler_shift(0, w) = w, and for every w > 0 the result
\* is above w for rv > 0 (redshift) and below w for rv < 0 (blueshift).
C12_DopplerShiftSign ==
    (result.op = "calculate_doppler_shift" /\ Positive(result.wavelength)) =>
        /\ RIsZero(result.rv) => result.value = result.wavelength
        /\ Positive(result.rv) => RLt(result.wavelength, result.value)
        /\ RLt(result.rv, Zero) => RLt(result.value, result.wavelength)

\* C12's case: a receding source, its line shifted to the red.
C12_Witness ==
    /\ result.op = "calculate_doppler_shift"
    /\ Positive(result.rv)
    /\ result.wavelength = Num(2)
    /\ RLt(result.wavelength, result.value)

\* The engine a fresh BinaryStarSystem(...) call with self's parameters
\* gives.
Fresh(self) ==
    BinaryStarSystem(self.mass1, self.mass2, self.semi_major_axis,
                     self.period).system

\* C13: once constructed the engine is stateless: no query changes a stored
\* field, and whatever was asked before, each query returns what a freshly
\* constructed engine of the same parameters returns.
C13_EngineStateless ==
    [][system.constructed =>
        /\ system' = system
        /\ system = Fresh(system)
        /\ result'.op = "calculate_positions" =>
               result'.value = calculate_positions(Fresh(system),
                                                   result'.times)
        /\ result'.op = "calculate_radial_velocities" =>
               result'.value
                   = calculate_radial_velocities(Fresh(system), result'.times,
                                                 result'.inclination)
        /\ result'.op = "calculate_doppler_shift" =>
               result'.value
                   = calculate_doppler_shift(Fresh(system), result'.rv,
                                             result'.wavelength)]_vars

\* C13's case: an engine that has answered a query with moving stars and
\* still holds exactly what its constructor stored.
C13_Witness ==
    /\ system.constructed
    /\ ValidParameters(system)
    /\ result.op = "calculate_radial_velocities"
    /\ SSign(result.value.rv1) = 1
    /\ system = Fresh(system)

\* How many times the stripped line c has been entered.
Count(c) ==
    Cardinality({i \in 1..Len(main.choices) : main.choices[i] = c})

\* The days the choices entered add up to.
DaysChosen ==
    Count(<<"2">>) + 30 * Count(<<"3">>) + 365 * Count(<<"4">>)

\* C18: in the menu loop '2', '3' and '4' call update with 1, 30 and 365
\* days and nothing else changes the simulation: time_elapsed is
\* 1*#'2' + 30*#'3' + 365*#'4' and the bodies stand where one update by
\* that many days puts them; '1', '5', '6', '7' and unrecognised lines
\* leave time_elapsed and every angle unchanged; the loop ends on '0' and
\* goes on after every other choice.
C18_MenuDrivesUpdate ==
    /\ [](/\ solar_system.time_elapsed = Num(DaysChosen)
          /\ \A i \in 1..Len(solar_system.bodies) :
                 LET b == solar_system.bodies[i]
                 IN  b.angle = RMod(RDiv(RMul(TwoPi, Num(DaysChosen)),
                                         b.orbital_period), TwoPi)
          /\ (\E i \in 1..Len(main.choices) : main.choices[i] = <<"0">>)
                 => ~main.running)
    /\ [][\A line \in MenuInputs :
            MenuChoice(line) =>
                /\ strip(line) = <<"2">> =>
                       solar_system' = update(solar_system, Num(1)).ss
                /\ strip(line) = <<"3">> =>
                       solar_system' = update(solar_system, Num(30)).ss
                /\ strip(line) = <<"4">> =>
                       solar_system' = update(solar_system, Num(365)).ss
                /\ strip(line) \notin {<<"2">>, <<"3">>, <<"4">>} =>
                       solar_system' = solar_system
                /\ main'.running <=> strip(line) # <<"0">>]_vars

\* C18's case: a day, a year and a display entered, then '0': the loop has
\* ended with 366 days elapsed.
C18_Witness ==
    /\ ~main.running
    /\ main.choices = <<(<<"2">>), (<<"4">>), (<<"0">>)>>
    /\ solar_system.time_elapsed = Num(366)
    /\ ~RIsZero(solar_system.bodies[3].angle)

\* What the lines of AnswerValues say, read by eye: nothing, a number, or
\* no number.
Blank ==
    {<<>>, <<" ">>}

NonNumeric ==
    {<<"x">>, <<"1", ",", "5">>}

Entered(answer) ==
    CASE answer = <<"2">> -> Num(2)
      [] answer = <<"1", ".", "2", "5">> -> Dec(125, 100)
      [] answer = <<" ", "-", "3", " ">> -> Num(-3)

\* C20: get_user_input never raises on text; an empty answer gives the
\* field its default; one non-numeric answer at any of the five prompts
\* makes it return exactly (1.5, 1.0, 5.0, 365.0, 90.0); and well-formed
\* answers are returned as entered.
C20_DefaultsForMalformedText ==
    result.op = "get_user_input" =>
        /\ raised = "none"
        /\ IF \E i \in 1..5 : result.answers[i] \in NonNumeric
           THEN result.value = <<Dec(15, 10), Num(1), Num(5), Num(365),
                                 Num(90)>>
           ELSE \A i \in 1..5 :
                    result.value[i]
                        = IF result.answers[i] \in Blank
                          THEN <<Dec(15, 10), Num(1), Num(5), Num(365),
                                 Num(90)>>[i]
                          ELSE Entered(result.answers[i])

\* C20's case: four well-formed answers and text at the last prompt: every
\* field comes back as its default.
C20_Witness ==
    /\ result.op = "get_user_input"
    /\ result.answers[1] = <<"2">>
    /\ result.answers[2] = <<"1", ".", "2", "5">>
    /\ result.answers[3] = <<"2">>
    /\ result.answers[4] = <<" ", "-", "3", " ">>
    /\ result.answers[5] = <<"x">>
    /\ result.value[1] = Dec(15, 10)
    /\ result.value[4] = Num(365)

=============================================================================
